---- MODULE Spec2Model ----
(***************************************************************************)
(* A model of src/chatbot.ts: the create_webhook tool (its argument schema *)
(* and createWebhook) and the process that runs the agent (main,           *)
(* chooseMode, runChatMode, runAutonomousMode).                            *)
(*                                                                         *)
(* JavaScript objects are functions from their own keys to values, so that *)
(* Object.keys(o) is DOMAIN o and an absent key differs from a key whose   *)
(* value is the empty string.  A string built by a template literal is the *)
(* sequence of its pieces.                                                 *)
(***************************************************************************)
EXTENDS Integers, Sequences, FiniteSets, TLC

\* ------------------------------------------------------------------ bounds

\* Longest address list of an input.
MaxAddrs == 2

\* Turns (sends to the agent runtime) one run of the process is followed for.
MaxTurns == 2

\* Longest chunk stream of a turn.
MaxChunks == 2

\* Milliseconds one step of the clock advances.
TickMs == 2500

\* Clock steps a due timer may still be pending for.
MaxLate == 1

\* Rejected lines of the mode menu that are counted (more are not told apart).
MaxPrompts == 2

\* ------------------------------------------------------- values and inputs

\* The object {}.
EmptyObj == [k \in {} |-> ""]

\* { ...a, ...b }: b's keys win.
Merge(a, b) ==
  [k \in (DOMAIN a) \cup (DOMAIN b) |-> IF k \in DOMAIN b THEN b[k] ELSE a[k]]

\* The object with the single key k.
Obj1(k, v) == [x \in {k} |-> v]

\* o?.k is truthy: o is there, has the key, and the string is not "".
Truthy(o, k) == k \in DOMAIN o /\ o[k] # ""

WebhookEventType ==
  {"wallet_activity", "smart_contract_event_activity", "erc20_transfer", "erc721_transfer"}

\* The three string fields of the EventFilters schema, and its list field.
TransferKeys == {"from_address", "to_address", "contract_address"}
EventFiltersKeys == TransferKeys \cup {"addresses"}

\* Inputs: event types (one outside the enumeration), addresses, URIs.
EventTypeInputs == WebhookEventType \cup {"erc1155_transfer"}
Addrs == {"0xA1", "0xB2"}
AddrLists == UNION {[1..n -> Addrs] : n \in 0..MaxAddrs}
UriInputs == {"https://hooks.example/cb", "not a url"}
IsUrl(s) == s = "https://hooks.example/cb"

\* A raw eventFilters object: any subset of the schema's keys, plus possibly
\* a key the schema does not know; a string field is "" or an address.
RawFilterObjs ==
  UNION {
    { Merge(f, g) : f \in [K -> {"", "0xAA"}],
                    g \in {EmptyObj, Obj1("addresses", <<"0xA1">>), Obj1("memo", "x"),
                           Merge(Obj1("addresses", <<"0xA1">>), Obj1("memo", "x"))} }
    : K \in SUBSET TransferKeys }

\* A raw eventTypeFilter object: with an address list, or without the key.
RawTypeFilterObjs == {Obj1("addresses", s) : s \in AddrLists} \cup {EmptyObj}

\* The raw arguments of one invocation; eventFilters may be left out.
RawArgs ==
  UNION {
    { Merge([notificationUri |-> u, eventType |-> t, eventTypeFilter |-> etf], ef)
        : u \in UriInputs, etf \in RawTypeFilterObjs,
          ef \in {EmptyObj} \cup {Obj1("eventFilters", f) : f \in RawFilterObjs} }
    : t \in EventTypeInputs }

\* process.env.NETWORK_ID: "" stands for unset (an empty value is falsy too).
NetworkIdInputs == {"", "base-sepolia", "base-mainnet"}

\* -------------------------------------------------------------------- state

VARIABLES
  networkId,      \* process.env.NETWORK_ID ("" when unset)
  wpc,            \* where the create_webhook tool is: idle, awaiting, returned, rejected
  via,            \* how createWebhook was entered: "tool" (through argsSchema) or "direct"
  args,           \* the arguments createWebhook runs with (the raw input when rejected)
  built,          \* the webhookOptions the switch completed, if any (at most one)
  providerCalls,  \* the payloads handed to Webhook.create by this invocation
  result,         \* the string createWebhook returned (a sequence of pieces)
  propagated      \* the errors createWebhook let escape to its caller

toolVars == <<networkId, wpc, via, args, built, providerCalls, result, propagated>>

VARIABLES
  envSet,         \* the required environment variables that are set
  pc,             \* where the process is (see the actions)
  exitCode,       \* the exit status once pc = "exited", -1 while running
  mode,           \* what chooseMode returned, "" before
  threadId,       \* configurable.thread_id of the agent config, "" before
  userInput,      \* the line the last question resolved to
  sends,          \* calls of agent.stream so far
  reads,          \* lines read by runChatMode so far
  sleeps,         \* interval timers runAutonomousMode has set so far
  lastSend,       \* the message and config of the last call of agent.stream
  produced,       \* the chunks the runtime has yielded in this turn
  printed,        \* the lines console.log has written in this turn
  elapsedMs,      \* time since the pending (or last) interval timer was set
  errors,         \* errors thrown in a driver's try block so far
  modeLine,       \* the line chooseMode read last, <<>> outside chooseMode
  prompts,        \* lines chooseMode has rejected, counted up to MaxPrompts
  drains          \* streams the drivers have iterated to their end so far

driverVars ==
  <<envSet, pc, exitCode, mode, threadId, userInput, sends, reads, sleeps,
    lastSend, produced, printed, elapsedMs, errors, modeLine, prompts, drains>>

vars == <<toolVars, driverVars>>

\* --------------------------------------------------- the argument schemas

\* EventFilters: z.object strips the keys it does not know and leaves out an
\* optional key the input does not have; the refinement then counts the keys.
EventFiltersStrip(raw) == [k \in (DOMAIN raw) \cap EventFiltersKeys |-> raw[k]]

EventFiltersRefine(data) == Cardinality(DOMAIN data) > 0

\* CreateWebhookInput accepts the raw arguments.
CreateWebhookInputOk(raw) ==
  /\ IsUrl(raw.notificationUri)
  /\ raw.eventType \in WebhookEventType
  /\ "addresses" \in DOMAIN raw.eventTypeFilter
  /\ "eventFilters" \in DOMAIN raw => EventFiltersRefine(EventFiltersStrip(raw.eventFilters))

\* The value the schema hands to func.
CreateWebhookInputParse(raw) ==
  IF "eventFilters" \in DOMAIN raw
  THEN Merge(raw, Obj1("eventFilters", EventFiltersStrip(raw.eventFilters)))
  ELSE raw

\* ------------------------------------------------------------ createWebhook

\* A thrown value: an Error with a message, or some other value with its text.
ErrorOf(msg) == [isError |-> TRUE, text |-> msg]

\* `${error}`: Error.prototype.toString gives "Error: message", and only the
\* name when the message is empty; another value gives its own text.
ErrorToString(e) ==
  IF e.isError
  THEN (IF e.text = <<>> THEN <<"Error">> ELSE <<"Error: ">> \o e.text)
  ELSE e.text

\* eventFilters of the arguments, {} standing for undefined under ?. access.
FiltersOf(a) == IF "eventFilters" \in DOMAIN a THEN a.eventFilters ELSE EmptyObj

\* A faulty variant: the key is copied whenever the input has it, "" included.
SpreadIfTruthy_IfPresent(ef, k) == IF k \in DOMAIN ef THEN Obj1(k, ef[k]) ELSE EmptyObj

\* ...(eventFilters?.k ? { k: eventFilters.k } : {})
SpreadIfTruthy(ef, k) == IF Truthy(ef, k) THEN Obj1(k, ef[k]) ELSE EmptyObj

\* The one filter object of a transfer webhook.
TransferFilterObject(ef) ==
  Merge(Merge(SpreadIfTruthy(ef, "contract_address"), SpreadIfTruthy(ef, "from_address")),
        SpreadIfTruthy(ef, "to_address"))

\* eventTypeFilter.addresses || []
AddressesOrEmpty(etf) == IF "addresses" \in DOMAIN etf THEN etf.addresses ELSE <<>>

\* A faulty variant: the wallet_activity case leaves wallet_id out.
BuildOptions_NoWalletId(a, net) ==
  LET base == [networkId |-> net, notificationUri |-> a.notificationUri,
               eventType |-> a.eventType]
      done(o) == [options |-> <<o>>, thrown |-> <<>>]
  IN CASE a.eventType = "wallet_activity" ->
            done(Merge(base, Obj1("eventTypeFilter",
                   [addresses |-> AddressesOrEmpty(a.eventTypeFilter)])))
       [] a.eventType = "smart_contract_event_activity" ->
            done(Merge(base, Obj1("eventTypeFilter",
                   [contract_addresses |-> AddressesOrEmpty(a.eventTypeFilter)])))
       [] a.eventType \in {"erc20_transfer", "erc721_transfer"} ->
            done(Merge(base, Obj1("eventFilters", <<TransferFilterObject(FiltersOf(a))>>)))
       [] OTHER ->
            [options |-> <<>>,
             thrown |-> <<ErrorOf(<<"Unsupported event type: ", a.eventType>>)>>]

\* A faulty variant: the switch has no default case, so an unknown event
\* type falls through with the options it started with.
BuildOptions_NoDefault(a, net) ==
  LET base == [networkId |-> net, notificationUri |-> a.notificationUri,
               eventType |-> a.eventType]
      done(o) == [options |-> <<o>>, thrown |-> <<>>]
  IN CASE a.eventType = "wallet_activity" ->
            done(Merge(base, Obj1("eventTypeFilter",
                   [addresses |-> AddressesOrEmpty(a.eventTypeFilter), wallet_id |-> ""])))
       [] a.eventType = "smart_contract_event_activity" ->
            done(Merge(base, Obj1("eventTypeFilter",
                   [contract_addresses |-> AddressesOrEmpty(a.eventTypeFilter)])))
       [] a.eventType \in {"erc20_transfer", "erc721_transfer"} ->
            done(Merge(base, Obj1("eventFilters", <<TransferFilterObject(FiltersOf(a))>>)))
       [] OTHER -> done(base)

\* A faulty variant: the options start out with the eventFilters given, and
\* only the transfer cases replace them.
BuildOptions_CarriesFilters(a, net) ==
  LET base == Merge([networkId |-> net, notificationUri |-> a.notificationUri,
                     eventType |-> a.eventType],
                    IF "eventFilters" \in DOMAIN a
                    THEN Obj1("eventFilters", <<a.eventFilters>>) ELSE EmptyObj)
      done(o) == [options |-> <<o>>, thrown |-> <<>>]
  IN CASE a.eventType = "wallet_activity" ->
            done(Merge(base, Obj1("eventTypeFilter",
                   [addresses |-> AddressesOrEmpty(a.eventTypeFilter), wallet_id |-> ""])))
       [] a.eventType = "smart_contract_event_activity" ->
            done(Merge(base, Obj1("eventTypeFilter",
                   [contract_addresses |-> AddressesOrEmpty(a.eventTypeFilter)])))
       [] a.eventType \in {"erc20_transfer", "erc721_transfer"} ->
            done(Merge(base, Obj1("eventFilters", <<TransferFilterObject(FiltersOf(a))>>)))
       [] OTHER ->
            [options |-> <<>>,
             thrown |-> <<ErrorOf(<<"Unsupported event type: ", a.eventType>>)>>]

\* The switch on eventType: the options it completes, or the error it throws.
BuildOptions(a, net) ==
  LET base == [networkId |-> net, notificationUri |-> a.notificationUri,
               eventType |-> a.eventType]
      done(o) == [options |-> <<o>>, thrown |-> <<>>]
  IN CASE a.eventType = "wallet_activity" ->
            done(Merge(base, Obj1("eventTypeFilter",
                   [addresses |-> AddressesOrEmpty(a.eventTypeFilter), wallet_id |-> ""])))
       [] a.eventType = "smart_contract_event_activity" ->
            done(Merge(base, Obj1("eventTypeFilter",
                   [contract_addresses |-> AddressesOrEmpty(a.eventTypeFilter)])))
       [] a.eventType \in {"erc20_transfer", "erc721_transfer"} ->
            done(Merge(base, Obj1("eventFilters", <<TransferFilterObject(FiltersOf(a))>>)))
       [] OTHER ->
            [options |-> <<>>,
             thrown |-> <<ErrorOf(<<"Unsupported event type: ", a.eventType>>)>>]

\* A faulty variant: the network id is not checked before the switch.
TryBody_NoNetworkCheck(a, net) == BuildOptions(a, net)

\* The body of the try block up to the await: the network id check, then the switch.
TryBody(a, net) ==
  IF net = ""
  THEN [options |-> <<>>,
        thrown |-> <<ErrorOf(<<"Network ID is not configured in environment variables">>)>>]
  ELSE BuildOptions(a, net)

\* A faulty variant: the error is logged and thrown again.
Catch_Rethrow(e) == [returned |-> <<>>, escaped |-> <<e>>]

\* The catch clause: what createWebhook does with an error thrown in the try block.
Catch(e) == [returned |-> <<"Error: ">> \o ErrorToString(e), escaped |-> <<>>]

\* The return on success.
SuccessString(w) == <<"The webhook was successfully created: ", w, "\n\n">>

\* What Webhook.create may resolve to (webhook?.toString()), and reject with.
WebhookStrings == {"Webhook{id: 'wh1'}", "undefined"}
ProviderErrors ==
  {ErrorOf(<<"provider rejected the request">>), ErrorOf(<<>>),
   [isError |-> FALSE, text |-> <<"socket hang up">>]}

\* The tool before its first invocation.
ToolIdle ==
  /\ wpc = "idle"
  /\ via = ""
  /\ args = EmptyObj
  /\ built = <<>>
  /\ providerCalls = <<>>
  /\ result = <<>>
  /\ propagated = <<>>

\* createWebhook from its entry to its first suspension (the call of
\* Webhook.create) or, when the try block throws before it, to its return.
EnterCreateWebhook(a, how) ==
  LET t == TryBody(a, networkId)
  IN /\ via' = how
     /\ args' = a
     /\ built' = t.options
     /\ IF t.thrown = <<>>
        THEN /\ providerCalls' = t.options
             /\ wpc' = "awaiting"
             /\ UNCHANGED <<result, propagated>>
        ELSE /\ providerCalls' = <<>>
             /\ result' = Catch(t.thrown[1]).returned
             /\ propagated' = Catch(t.thrown[1]).escaped
             /\ wpc' = "returned"
     /\ UNCHANGED networkId

\* The agent runtime invokes the tool: argsSchema parses the raw arguments
\* and func runs only on what it accepts.
InvokeTool ==
  /\ wpc = "idle"
  /\ \E raw \in RawArgs :
       IF CreateWebhookInputOk(raw)
       THEN EnterCreateWebhook(CreateWebhookInputParse(raw), "tool")
       ELSE /\ wpc' = "rejected"
            /\ via' = "tool"
            /\ args' = raw
            /\ UNCHANGED <<networkId, built, providerCalls, result, propagated>>
  /\ UNCHANGED driverVars

\* createWebhook called with arguments no schema has seen.
CallCreateWebhook ==
  /\ wpc = "idle"
  /\ \E raw \in RawArgs : EnterCreateWebhook(raw, "direct")
  /\ UNCHANGED driverVars

\* Webhook.create resolves.
ProviderResolves ==
  /\ wpc = "awaiting"
  /\ \E w \in WebhookStrings : result' = SuccessString(w)
  /\ wpc' = "returned"
  /\ UNCHANGED <<networkId, via, args, built, providerCalls, propagated>>
  /\ UNCHANGED driverVars

\* Webhook.create rejects: the await throws inside the try block.
ProviderRejects ==
  /\ wpc = "awaiting"
  /\ \E e \in ProviderErrors :
       /\ result' = Catch(e).returned
       /\ propagated' = Catch(e).escaped
  /\ wpc' = "returned"
  /\ UNCHANGED <<networkId, via, args, built, providerCalls>>
  /\ UNCHANGED driverVars

\* The invocation is over; the tool is ready for the next one.
ToolDone ==
  /\ wpc \in {"returned", "rejected"}
  /\ wpc' = "idle"
  /\ via' = ""
  /\ args' = EmptyObj
  /\ built' = <<>>
  /\ providerCalls' = <<>>
  /\ result' = <<>>
  /\ propagated' = <<>>
  /\ UNCHANGED networkId
  /\ UNCHANGED driverVars

ToolNext ==
  \/ InvokeTool
  \/ CallCreateWebhook
  \/ ProviderResolves
  \/ ProviderRejects
  \/ ToolDone

\* ------------------------------------------------- lines and their tests

\* A line of input is the sequence of its characters.
ToLowerChar(c) ==
  CASE c = "A" -> "a" [] c = "C" -> "c" [] c = "E" -> "e" [] c = "H" -> "h"
    [] c = "I" -> "i" [] c = "O" -> "o" [] c = "T" -> "t" [] c = "U" -> "u"
    [] c = "X" -> "x" [] OTHER -> c

\* String.prototype.toLowerCase
ToLowerCase(s) == [i \in 1..Len(s) |-> ToLowerChar(s[i])]

WhiteSpace == {" ", "\t"}

RECURSIVE TrimStart(_)
TrimStart(s) == IF s # <<>> /\ Head(s) \in WhiteSpace THEN TrimStart(Tail(s)) ELSE s

RECURSIVE TrimEnd(_)
TrimEnd(s) ==
  IF s # <<>> /\ s[Len(s)] \in WhiteSpace THEN TrimEnd(SubSeq(s, 1, Len(s) - 1)) ELSE s

\* A faulty variant: only the start of the string is trimmed.
Trim_StartOnly(s) == TrimStart(s)

\* String.prototype.trim
Trim(s) == TrimEnd(TrimStart(s))

\* A faulty variant: the comparison is case-sensitive.
IsExit_CaseSensitive(line) == line = <<"e", "x", "i", "t">>

\* A faulty variant: the line is trimmed before the comparison.
IsExit_Trimmed(line) == Trim(ToLowerCase(line)) = <<"e", "x", "i", "t">>

\* userInput.toLowerCase() === "exit"
IsExit(line) == ToLowerCase(line) = <<"e", "x", "i", "t">>

\* The lines a user may type at the chat prompt.
ChatLines ==
  {<<"e", "x", "i", "t">>, <<"E", "X", "I", "T">>, <<"E", "x", "i", "t">>,
   <<"e", "x", "I", "t">>, <<"e", "x", "i", "t", " ">>, <<"h", "i">>, <<>>}

\* The lines a user may type at the mode menu.
ModeLines ==
  {<<"1">>, <<"2">>, <<"c", "h", "a", "t">>, <<"a", "u", "t", "o">>,
   <<" ", "C", "h", "a", "t", " ">>, <<"A", "U", "T", "O", "\t">>, <<" ", "2">>,
   <<"3">>, <<"c", "h", "a", "t", "1">>, <<>>}

\* -------------------------------------------------------- chunks of a turn

Separator == "-------------------"

\* A chunk has one key, the node that produced it, holding that node's messages.
ChunkNodes == {"agent", "tools", "other"}
MessageLists ==
  {<<[content |-> "a"]>>, <<[content |-> "b"]>>, <<[content |-> "a"], [content |-> "b"]>>}
Chunks == {Obj1(n, [messages |-> m]) : n \in ChunkNodes, m \in MessageLists}

\* A faulty variant: the loop body writes no separator.
RenderChunk_NoSeparator(chunk) ==
  IF "agent" \in DOMAIN chunk
  THEN <<chunk.agent.messages[1].content>>
  ELSE IF "tools" \in DOMAIN chunk
       THEN <<chunk.tools.messages[1].content>>
       ELSE <<>>

\* A faulty variant: the last message of the chunk is written, not the first.
RenderChunk_LastMessage(chunk) ==
  (IF "agent" \in DOMAIN chunk
   THEN <<chunk.agent.messages[Len(chunk.agent.messages)].content>>
   ELSE IF "tools" \in DOMAIN chunk
        THEN <<chunk.tools.messages[Len(chunk.tools.messages)].content>>
        ELSE <<>>)
  \o <<Separator>>

\* The body of the for await loop: the lines console.log writes for one chunk.
RenderChunk(chunk) ==
  (IF "agent" \in DOMAIN chunk
   THEN <<chunk.agent.messages[1].content>>
   ELSE IF "tools" \in DOMAIN chunk
        THEN <<chunk.tools.messages[1].content>>
        ELSE <<>>)
  \o <<Separator>>

\* ------------------------------------------------------------- the process

RequiredVars == {"CDP_API_KEY_NAME", "CDP_API_KEY_PRIVATE_KEY"}

ThreadId == "CDP Agentkit Chatbot Example!"

Thought ==
  <<"Be creative and do something interesting on the blockchain. ",
    "Choose an action or set of actions and execute it that highlights your abilities.">>

\* The default of runAutonomousMode's interval parameter, in seconds.
Interval == 10

\* A faulty variant: the seconds are handed to setTimeout as they are.
TimeoutMs_Seconds(interval) == interval

\* The delay handed to setTimeout.
TimeoutMs(interval) == interval * 1000

\* A faulty variant: NETWORK_ID is checked like the required variables.
MissingVars_NetworkId(env, net) ==
  (RequiredVars \ env) \cup (IF net = "" THEN {"NETWORK_ID"} ELSE {})

\* validateEnvironment: the required variables that are not set; NETWORK_ID
\* is not among them, its absence only draws a warning.
MissingVars(env, net) == RequiredVars \ env

\* process.exit(code)
Exit(code) ==
  /\ pc' = "exited"
  /\ exitCode' = code

\* A faulty variant: the for await loop is left after its first chunk.
AfterChunk_Break(p) == IF p = "chat_iterating" THEN "chat_prompt" ELSE "auto_loop"

\* The for await loop after a chunk's body: it asks the stream for the next one.
AfterChunk(p) == p

\* A faulty variant: the function returns once the interval has passed.
AfterInterval_Return == [pc |-> "exited", exitCode |-> 0]

\* runAutonomousMode after the interval: while (true) starts the next iteration.
AfterInterval == [pc |-> "auto_loop", exitCode |-> -1]

\* A faulty variant: the error is logged and the loop goes on.
ChatCatch_Continue == [pc |-> "chat_prompt", exitCode |-> -1]

\* The catch clause of runChatMode: log the error, process.exit(1).
ChatCatch == [pc |-> "exited", exitCode |-> 1]

\* The catch clause inside runAutonomousMode's loop: log the error, process.exit(1).
AutoCatch == [pc |-> "exited", exitCode |-> 1]

\* The state the module is loaded in, NETWORK_ID being one of nets.
InitWith(nets) ==
  /\ networkId \in nets
  /\ ToolIdle
  /\ envSet \in SUBSET RequiredVars
  /\ pc = "start"
  /\ exitCode = -1
  /\ mode = ""
  /\ threadId = ""
  /\ userInput = <<>>
  /\ sends = 0
  /\ reads = 0
  /\ sleeps = 0
  /\ lastSend = [message |-> <<>>, threadId |-> ""]
  /\ produced = <<>>
  /\ printed = <<>>
  /\ elapsedMs = 0
  /\ errors = 0
  /\ modeLine = <<>>
  /\ prompts = 0
  /\ drains = 0

\* The process reads NETWORK_ID only for whether it is set.
Init == InitWith({"", "base-sepolia"})

\* Module load: validateEnvironment exits when a required variable is missing
\* and only warns when NETWORK_ID is; otherwise main starts.
ValidateEnvironment ==
  /\ pc = "start"
  /\ IF MissingVars(envSet, networkId) # {}
     THEN Exit(1)
     ELSE pc' = "main" /\ UNCHANGED exitCode
  /\ UNCHANGED <<modeLine, prompts, drains, envSet, mode, threadId, userInput, sends, reads, sleeps,
                 lastSend, produced, printed, elapsedMs, errors>>
  /\ UNCHANGED toolVars

\* main: initializeAgent returns the agent and its config.
InitializeAgent ==
  /\ pc = "main"
  /\ threadId' = ThreadId
  /\ pc' = "chooseMode"
  /\ UNCHANGED <<modeLine, prompts, drains, envSet, exitCode, mode, userInput, sends, reads, sleeps,
                 lastSend, produced, printed, elapsedMs, errors>>
  /\ UNCHANGED toolVars

\* main: initializeAgent throws; main's catch exits.
InitializeAgentFails ==
  /\ pc = "main"
  /\ Exit(1)
  /\ UNCHANGED <<modeLine, prompts, drains, envSet, mode, threadId, userInput, sends, reads, sleeps,
                 lastSend, produced, printed, elapsedMs, errors>>
  /\ UNCHANGED toolVars

\* chooseMode: one line of the menu loop.
ChooseMode ==
  /\ pc = "chooseMode"
  /\ \E line \in ModeLines :
       LET choice == Trim(ToLowerCase(line))
       IN /\ modeLine' = line
          /\ IF choice = <<"1">> \/ choice = <<"c", "h", "a", "t">>
             THEN mode' = "chat" /\ pc' = "chosen" /\ UNCHANGED prompts
             ELSE IF choice = <<"2">> \/ choice = <<"a", "u", "t", "o">>
                  THEN mode' = "auto" /\ pc' = "chosen" /\ UNCHANGED prompts
                  ELSE /\ prompts' = IF prompts < MaxPrompts THEN prompts + 1 ELSE prompts
                       /\ UNCHANGED <<mode, pc>>
  /\ UNCHANGED <<drains, envSet, exitCode, threadId, userInput, sends, reads, sleeps,
                 lastSend, produced, printed, elapsedMs, errors>>
  /\ UNCHANGED toolVars

\* A faulty variant: the two branches of main are the wrong way round.
DriverEntry_Swapped(m) == IF m = "chat" THEN "auto_loop" ELSE "chat_prompt"

\* main: the driver run for the mode chooseMode returned.
DriverEntry(m) == IF m = "chat" THEN "chat_prompt" ELSE "auto_loop"

\* main: chooseMode has returned (its line is gone with it); start the driver.
StartDriver ==
  /\ pc = "chosen"
  /\ pc' = DriverEntry(mode)
  /\ modeLine' = <<>>
  /\ prompts' = 0
  /\ UNCHANGED <<drains, envSet, exitCode, mode, threadId, userInput, sends, reads, sleeps,
                 lastSend, produced, printed, elapsedMs, errors>>
  /\ UNCHANGED toolVars

\* A faulty variant: every turn after the first gets a thread of its own.
SendConfig_Fresh == IF sends = 0 THEN threadId ELSE "another thread"

\* The thread_id of the config a driver hands to agent.stream: that of the
\* config initializeAgent returned.
SendConfig == threadId

\* agent.stream({ messages: [new HumanMessage(text)] }, config)
AgentStream(text) ==
  /\ sends' = sends + 1
  /\ lastSend' = [message |-> text, threadId |-> SendConfig]
  /\ produced' = <<>>
  /\ printed' = <<>>

\* runChatMode: the question resolves with a line; "exit" breaks out of the
\* loop and the process ends; any other line is sent to the agent.
ChatRead ==
  /\ pc = "chat_prompt"
  /\ \E line \in ChatLines :
       /\ userInput' = line
       /\ reads' = reads + 1
       /\ IF IsExit(line)
          THEN /\ Exit(0)
               /\ UNCHANGED <<sends, lastSend, produced, printed>>
          ELSE /\ sends < MaxTurns
               /\ AgentStream(line)
               /\ pc' = "chat_await_stream"
               /\ UNCHANGED exitCode
  /\ UNCHANGED <<modeLine, prompts, drains, envSet, mode, threadId, sleeps, elapsedMs, errors>>
  /\ UNCHANGED toolVars

\* runChatMode: agent.stream resolves to the stream.
ChatStreamOpens ==
  /\ pc = "chat_await_stream"
  /\ pc' = "chat_iterating"
  /\ UNCHANGED <<modeLine, prompts, drains, envSet, exitCode, mode, threadId, userInput, sends, reads, sleeps,
                 lastSend, produced, printed, elapsedMs, errors>>
  /\ UNCHANGED toolVars

\* runChatMode: the stream yields a chunk and the loop body renders it.
ChatChunk ==
  /\ pc = "chat_iterating"
  /\ Len(produced) < MaxChunks
  /\ \E chunk \in Chunks :
       /\ produced' = Append(produced, chunk)
       /\ printed' = printed \o RenderChunk(chunk)
  /\ pc' = AfterChunk(pc)
  /\ UNCHANGED <<modeLine, prompts, drains, envSet, exitCode, mode, threadId, userInput, sends, reads, sleeps,
                 lastSend, elapsedMs, errors>>
  /\ UNCHANGED toolVars

\* runChatMode: the stream is done; back to the prompt.
ChatStreamEnds ==
  /\ pc = "chat_iterating"
  /\ pc' = "chat_prompt"
  /\ drains' = drains + 1
  /\ UNCHANGED <<modeLine, prompts, envSet, exitCode, mode, threadId, userInput, sends, reads, sleeps,
                 lastSend, produced, printed, elapsedMs, errors>>
  /\ UNCHANGED toolVars

\* runChatMode: agent.stream rejects or the stream throws; the catch clause runs.
ChatError ==
  /\ pc \in {"chat_await_stream", "chat_iterating"}
  /\ errors' = errors + 1
  /\ pc' = ChatCatch.pc
  /\ exitCode' = ChatCatch.exitCode
  /\ UNCHANGED <<modeLine, prompts, drains, envSet, mode, threadId, userInput, sends, reads, sleeps,
                 lastSend, produced, printed, elapsedMs>>
  /\ UNCHANGED toolVars

\* runAutonomousMode: the head of an iteration sends the fixed thought.
AutoSend ==
  /\ pc = "auto_loop"
  /\ sends < MaxTurns
  /\ AgentStream(Thought)
  /\ pc' = "auto_await_stream"
  /\ UNCHANGED <<modeLine, prompts, drains, envSet, exitCode, mode, threadId, userInput, reads, sleeps,
                 elapsedMs, errors>>
  /\ UNCHANGED toolVars

\* runAutonomousMode: agent.stream resolves to the stream.
AutoStreamOpens ==
  /\ pc = "auto_await_stream"
  /\ pc' = "auto_iterating"
  /\ UNCHANGED <<modeLine, prompts, drains, envSet, exitCode, mode, threadId, userInput, sends, reads, sleeps,
                 lastSend, produced, printed, elapsedMs, errors>>
  /\ UNCHANGED toolVars

\* runAutonomousMode: the stream yields a chunk and the loop body renders it.
AutoChunk ==
  /\ pc = "auto_iterating"
  /\ Len(produced) < MaxChunks
  /\ \E chunk \in Chunks :
       /\ produced' = Append(produced, chunk)
       /\ printed' = printed \o RenderChunk(chunk)
  /\ pc' = AfterChunk(pc)
  /\ UNCHANGED <<modeLine, prompts, drains, envSet, exitCode, mode, threadId, userInput, sends, reads, sleeps,
                 lastSend, elapsedMs, errors>>
  /\ UNCHANGED toolVars

\* runAutonomousMode: the stream is done; the interval timer is set.
AutoStreamEnds ==
  /\ pc = "auto_iterating"
  /\ sleeps' = sleeps + 1
  /\ elapsedMs' = 0
  /\ pc' = "auto_sleep"
  /\ drains' = drains + 1
  /\ UNCHANGED <<modeLine, prompts, envSet, exitCode, mode, threadId, userInput, sends, reads,
                 lastSend, produced, printed, errors>>
  /\ UNCHANGED toolVars

\* Time passes while the interval timer is pending.
Tick ==
  /\ pc = "auto_sleep"
  /\ elapsedMs < TimeoutMs(Interval) + MaxLate * TickMs
  /\ elapsedMs' = elapsedMs + TickMs
  /\ UNCHANGED <<modeLine, prompts, drains, envSet, pc, exitCode, mode, threadId, userInput, sends, reads, sleeps,
                 lastSend, produced, printed, errors>>
  /\ UNCHANGED toolVars

\* The interval timer fires, not before its delay has passed; the loop goes on.
TimerFires ==
  /\ pc = "auto_sleep"
  /\ elapsedMs >= TimeoutMs(Interval)
  /\ pc' = AfterInterval.pc
  /\ exitCode' = AfterInterval.exitCode
  /\ UNCHANGED <<modeLine, prompts, drains, envSet, mode, threadId, userInput, sends, reads, sleeps,
                 lastSend, produced, printed, elapsedMs, errors>>
  /\ UNCHANGED toolVars

\* runAutonomousMode: agent.stream rejects or the stream throws; the catch clause runs.
AutoError ==
  /\ pc \in {"auto_await_stream", "auto_iterating"}
  /\ errors' = errors + 1
  /\ pc' = AutoCatch.pc
  /\ exitCode' = AutoCatch.exitCode
  /\ UNCHANGED <<modeLine, prompts, drains, envSet, mode, threadId, userInput, sends, reads, sleeps,
                 lastSend, produced, printed, elapsedMs>>
  /\ UNCHANGED toolVars

Next ==
  \/ ValidateEnvironment
  \/ InitializeAgent
  \/ InitializeAgentFails
  \/ ChooseMode
  \/ StartDriver
  \/ ChatRead
  \/ ChatStreamOpens
  \/ ChatChunk
  \/ ChatStreamEnds
  \/ ChatError
  \/ AutoSend
  \/ AutoStreamOpens
  \/ AutoChunk
  \/ AutoStreamEnds
  \/ Tick
  \/ TimerFires
  \/ AutoError

\* The process that runs the agent.
Spec == Init /\ [][Next]_vars

\* The process under the scheduling Node gives it: time passes, a due timer
\* fires, and the continuation of a resolved await runs.
SpecFair ==
  Spec /\ WF_vars(Tick) /\ WF_vars(TimerFires) /\ WF_vars(AutoSend)

\* The tool is invoked in a process that got past validateEnvironment.
ToolInit == InitWith(NetworkIdInputs) /\ envSet = RequiredVars

\* The create_webhook tool under invocation after invocation.
SpecTool == ToolInit /\ [][ToolNext]_vars

\* ================================================================== claims

\* The spellings of "exit" in every letter case.
ExitSpellings ==
  {<<e, x, i, t>> : e \in {"e", "E"}, x \in {"x", "X"}, i \in {"i", "I"}, t \in {"t", "T"}}

\* createWebhook has been entered by the current invocation.
Entered == via # "" /\ wpc # "rejected"

TransferTypes == {"erc20_transfer", "erc721_transfer"}

\* The transfer fields of the arguments that carry a non-empty value.
PopulatedKeys(a) ==
  IF "eventFilters" \in DOMAIN a
  THEN {k \in TransferKeys : k \in DOMAIN a.eventFilters /\ a.eventFilters[k] # ""}
  ELSE {}

\* The number of separator lines among the lines written.
SeparatorCount(lines) == Cardinality({i \in DOMAIN lines : lines[i] = "-------------------"})

\* C1: createWebhook never lets an error escape; once entered it is either
\* waiting for the provider or has returned a string, which is the success
\* string after a resolved provider call and an error string ("Error: ...")
\* after a rejected one, a missing network id or an unsupported event type.
C1_AlwaysReturnsString ==
  /\ propagated = <<>>
  /\ Entered => wpc \in {"awaiting", "returned"}
  /\ (Entered /\ networkId = "") =>
        /\ wpc = "returned"
        /\ result = <<"Error: ", "Error: ",
                      "Network ID is not configured in environment variables">>
  /\ (Entered /\ wpc = "returned") =>
        /\ Len(result) >= 2
        /\ \/ result[1] = "Error: "
           \/ /\ result[1] = "The webhook was successfully created: "
              /\ Len(providerCalls) = 1
        /\ providerCalls = <<>> => result[1] = "Error: "

\* C1 witness: a rejected provider call came back as an error string.
C1_Witness ==
  /\ wpc = "returned"
  /\ Len(providerCalls) = 1
  /\ result = <<"Error: ", "Error: ", "provider rejected the request">>

\* C7: through the tool, a transfer filter with no populated field (the
\* filter object left out included) never reaches the builder, and no
\* transfer request whose filter list is one empty object is built or sent.
C7_EmptyFilterRejected ==
  /\ (via = "tool" /\ args.eventType \in TransferTypes /\ PopulatedKeys(args) = {}) =>
        built = <<>> /\ providerCalls = <<>>
  /\ \A i \in DOMAIN providerCalls :
        "eventFilters" \in DOMAIN providerCalls[i] => providerCalls[i].eventFilters # <<EmptyObj>>

\* C8: every event type of the enumeration is built when the network id is
\* configured, and the options built have that type's shape: the network id,
\* the URI and the type given, and the type's one filter field.
C8_PayloadShape ==
  /\ (Entered /\ networkId # "" /\ args.eventType \in WebhookEventType) => Len(built) = 1
  /\ built # <<>> =>
       LET p == built[1]
           given == IF "addresses" \in DOMAIN args.eventTypeFilter
                    THEN args.eventTypeFilter.addresses ELSE <<>>
       IN /\ Len(built) = 1
          /\ p.networkId = networkId /\ networkId # ""
          /\ p.notificationUri = args.notificationUri
          /\ p.eventType = args.eventType
          /\ args.eventType \in WebhookEventType
          /\ args.eventType = "wallet_activity" =>
               /\ DOMAIN p = {"networkId", "notificationUri", "eventType", "eventTypeFilter"}
               /\ DOMAIN p.eventTypeFilter = {"addresses", "wallet_id"}
               /\ p.eventTypeFilter.addresses = given
               /\ p.eventTypeFilter.wallet_id = ""
          /\ args.eventType = "smart_contract_event_activity" =>
               /\ DOMAIN p = {"networkId", "notificationUri", "eventType", "eventTypeFilter"}
               /\ DOMAIN p.eventTypeFilter = {"contract_addresses"}
               /\ p.eventTypeFilter.contract_addresses = given
          /\ args.eventType \in TransferTypes =>
               /\ DOMAIN p = {"networkId", "notificationUri", "eventType", "eventFilters"}
               /\ Len(p.eventFilters) = 1

\* C8 witness: a wallet_activity request with two addresses was built.
C8_Witness ==
  /\ built # <<>>
  /\ args.eventType = "wallet_activity"
  /\ built[1].eventTypeFilter.addresses = <<"0xA1", "0xB2">>

\* C9: the filter object of a transfer request has exactly the populated
\* transfer fields as keys, each with the value given; a field left out or
\* given as "" is no key of it.
C9_SparseFilter ==
  (built # <<>> /\ args.eventType \in TransferTypes) =>
     LET f == built[1].eventFilters[1]
     IN /\ DOMAIN f = PopulatedKeys(args)
        /\ \A k \in DOMAIN f : f[k] = args.eventFilters[k] /\ f[k] # ""

\* C9 witness: only contract_address is populated (from_address is given as
\* "") and the filter object has the one key contract_address.
C9_Witness ==
  /\ built # <<>>
  /\ args.eventType = "erc721_transfer"
  /\ "eventFilters" \in DOMAIN args
  /\ DOMAIN args.eventFilters = {"contract_address", "from_address"}
  /\ args.eventFilters.from_address = ""
  /\ built[1].eventFilters = <<[contract_address |-> "0xAA"]>>

\* C10: createWebhook entered with an event type outside the enumeration
\* builds nothing, calls no provider and returns an error string; when the
\* switch is reached (the network id is configured) the string is that of the
\* unsupported-type error and names the type.
C10_UnsupportedType ==
  (Entered /\ args.eventType \notin WebhookEventType) =>
     /\ built = <<>>
     /\ providerCalls = <<>>
     /\ propagated = <<>>
     /\ wpc = "returned"
     /\ result[1] = "Error: "
     /\ networkId # "" =>
          result = <<"Error: ", "Error: ", "Unsupported event type: ", args.eventType>>

\* C10 witness: the unsupported type went through the switch.
C10_Witness ==
  /\ wpc = "returned"
  /\ networkId = "base-mainnet"
  /\ args.eventType = "erc1155_transfer"
  /\ result = <<"Error: ", "Error: ", "Unsupported event type: ", "erc1155_transfer">>

\* C2: in chat mode a line that spells "exit" in any letter case is not
\* sent: the step that reads it calls agent.stream not at all and ends the
\* process with status 0, so no call follows it either.
C2_ExitSendsNothing ==
  /\ [][(reads' = reads + 1 /\ userInput' \in ExitSpellings) =>
          (sends' = sends /\ lastSend' = lastSend /\ pc' = "exited" /\ exitCode' = 0)]_vars
  /\ []((reads > 0 /\ userInput \in ExitSpellings) => pc = "exited")
  /\ [][pc = "exited" => sends' = sends]_vars

\* C2 witness: "EXIT" ended a session that had one turn before it.
C2_Witness ==
  /\ pc = "exited"
  /\ exitCode = 0
  /\ userInput = <<"E", "X", "I", "T">>
  /\ sends = 1
  /\ reads = 2

\* C3: in chat mode the step that reads a line other than "exit" calls
\* agent.stream exactly once, with that line, and no other step of chat mode
\* calls it, so exactly one send lies between a line and the next prompt.
C3_OneTurnPerLine ==
  /\ [][(reads' = reads + 1 /\ userInput' \notin ExitSpellings) =>
          (sends' = sends + 1 /\ lastSend'.message = userInput'
             /\ pc' = "chat_await_stream")]_vars
  /\ [][(mode = "chat" /\ reads' = reads) => sends' = sends]_vars

\* C3 witness: two lines, the second one empty, and two sends, back at the prompt.
C3_Witness ==
  /\ pc = "chat_prompt"
  /\ reads = 2
  /\ sends = 2
  /\ userInput = <<>>
  /\ lastSend.message = <<>>

\* A turn's stream has been drained and the next turn has not begun.
TurnDrained == sends > 0 /\ pc \in {"chat_prompt", "auto_sleep", "auto_loop"}

C5_StreamErrorIsFatal ==
  /\ [](errors > 0 => pc = "exited" /\ exitCode = 1)
  /\ [][errors > 0 => (sends' = sends /\ reads' = reads /\ sleeps' = sleeps)]_vars
  /\ [][errors' # errors => (pc' = "exited" /\ exitCode' = 1)]_vars

\* C5 witness: chat mode died on an error after a chunk of its second turn.
C5_Witness ==
  /\ errors = 1
  /\ mode = "chat"
  /\ sends = 2
  /\ Len(produced) = 1
  /\ exitCode = 1

\* C6: in auto mode every send after the first is made after a timer was set
\* at the drain of the turn before it and the whole interval of 10 seconds
\* has passed since.
C6_IntervalBetweenTurns ==
  [][(mode = "auto" /\ sends' = sends + 1 /\ sends >= 1) =>
       (sleeps = sends /\ elapsedMs >= Interval * 1000)]_vars

\* C6 witness: the second send of auto mode has been made.
C6_Witness ==
  /\ mode = "auto"
  /\ sends = 2
  /\ sleeps = 1
  /\ pc = "auto_await_stream"

\* The lines of the menu that select chat mode, and those that select auto mode.
ChatChoices == {<<"1">>, <<"c", "h", "a", "t">>, <<" ", "C", "h", "a", "t", " ">>}
AutoChoices ==
  {<<"2">>, <<"a", "u", "t", "o">>, <<"A", "U", "T", "O", "\t">>, <<" ", "2">>}

\* C11: chooseMode never fails and ends only by returning a mode: a line
\* that, lowercased and trimmed, is none of "1", "chat", "2", "auto" leaves it
\* prompting (after any number of such lines the next line is still read);
\* "1" or "chat" returns chat and "2" or "auto" returns auto.
C11_ModeSelector ==
  /\ [][pc = "chooseMode" =>
          \/ modeLine' \in ChatChoices /\ mode' = "chat" /\ pc' = "chosen"
          \/ modeLine' \in AutoChoices /\ mode' = "auto" /\ pc' = "chosen"
          \/ /\ modeLine' \notin ChatChoices \cup AutoChoices
             /\ mode' = ""
             /\ pc' = "chooseMode"]_vars
  /\ [](pc \in {"chooseMode", "chosen"} => exitCode = -1)
  /\ [](pc = "chooseMode" => mode = "" /\ ENABLED ChooseMode)
  /\ [](pc = "chosen" =>
          /\ mode = "chat" <=> modeLine \in ChatChoices
          /\ mode = "auto" <=> modeLine \in AutoChoices)

\* C11 witness: auto mode selected by "AUTO<tab>" after two rejected lines.
C11_Witness ==
  /\ pc = "chosen"
  /\ mode = "auto"
  /\ prompts = 2
  /\ modeLine = <<"A", "U", "T", "O", "\t">>

\* C12 as stated: with the network id absent no session starts and no turn runs.
C12_NoSessionWithoutNetworkId ==
  networkId = "" => (mode = "" /\ sends = 0 /\ pc \in {"start", "exited"})

\* C12 as amended: validateEnvironment ends the process with status 1, before
\* the agent is initialized, a mode chosen or a turn run, exactly when a
\* required variable is missing; whether the network id is set plays no part.
C12_RequiredVarsOnly ==
  /\ [](envSet # {"CDP_API_KEY_NAME", "CDP_API_KEY_PRIVATE_KEY"} =>
          /\ pc \in {"start", "exited"}
          /\ pc = "exited" => exitCode = 1
          /\ mode = "" /\ threadId = "" /\ sends = 0 /\ reads = 0)
  /\ [][pc = "start" =>
          IF envSet = {"CDP_API_KEY_NAME", "CDP_API_KEY_PRIVATE_KEY"}
          THEN pc' = "main" /\ exitCode' = -1
          ELSE pc' = "exited" /\ exitCode' = 1]_vars

\* C12 witness: a turn is running with the network id absent.
C12_Witness ==
  /\ networkId = ""
  /\ sends = 1
  /\ pc = "chat_iterating"
  /\ Len(produced) = 1

\* C13: an invocation of createWebhook calls Webhook.create at most once and
\* never again after the call was made; exactly once when the network id is
\* configured and the event type is of the enumeration, and not at all
\* otherwise (nor when the schema rejected the arguments).
C13_OneProviderCall ==
  /\ [](Len(providerCalls) <= 1)
  /\ [](Entered =>
          (Len(providerCalls) = 1 <=> (networkId # "" /\ args.eventType \in WebhookEventType)))
  /\ [](wpc = "rejected" => providerCalls = <<>>)
  /\ [][wpc = "awaiting" => (providerCalls' = providerCalls /\ wpc' = "returned")]_vars

\* C13 witness: the one call was rejected and the invocation returned with it.
C13_Witness ==
  /\ wpc = "returned"
  /\ Len(providerCalls) = 1
  /\ result = <<"Error: ", "socket hang up">>

\* C14: turns are sequential: at most one stream is not yet drained, and
\* neither a send nor, in chat mode, the read of a line begins while one is.
C14_SequentialTurns ==
  /\ [](sends - drains \in {0, 1})
  /\ [][sends' # sends => (sends' = sends + 1 /\ drains = sends)]_vars
  /\ [][reads' # reads => drains = sends]_vars
  /\ [][drains' # drains => (drains' = drains + 1 /\ sends = drains')]_vars

\* C14 witness: a second turn was sent after the first was drained, and was
\* drained in its turn after two chunks.
C14_Witness ==
  /\ pc = "chat_prompt"
  /\ sends = 2
  /\ drains = 2
  /\ Len(produced) = 2

\* The lines a sequence of chunks is to be rendered as: for each chunk in
\* order, the content of the first message of its agent or tools entry, the
\* same for either, followed by the separator of its iteration.
RECURSIVE LinesFor(_)
LinesFor(chunks) ==
  IF chunks = <<>>
  THEN <<>>
  ELSE LET c == Head(chunks)
           text == {c[n].messages[1].content : n \in (DOMAIN c) \cap {"agent", "tools"}}
       IN (IF text = {} THEN <<>> ELSE <<CHOOSE t \in text : TRUE>>)
          \o <<"-------------------">> \o LinesFor(Tail(chunks))

\* C15: at every point of a turn the lines written are those of the chunks
\* yielded so far, each once and in the order yielded; an agent chunk and a
\* tools chunk with the same first message are written alike, and no message
\* of a chunk but its first is written.
C15_RenderedInOrder == printed = LinesFor(produced)

\* C15 witness: an agent chunk of two messages and a tools chunk with the
\* same first message, written as the same line each.
C15_Witness ==
  /\ produced = <<[agent |-> [messages |-> <<[content |-> "a"], [content |-> "b"]>>]],
                  [tools |-> [messages |-> <<[content |-> "a"]>>]]>>
  /\ printed = <<"a", "-------------------", "a", "-------------------">>

\* Every TransferFilter: any of the three fields, each "" or an address.
TransferFilterInputs == UNION {[K -> {"", "0xAA"}] : K \in SUBSET TransferKeys}

\* The arguments without the key k.
Without(a, k) == [x \in (DOMAIN a) \ {k} |-> a[x]]

\* C16: the options built for wallet_activity and
\* smart_contract_event_activity have no eventFilters and are those built
\* with any other eventFilters, or none; the options built for the transfer
\* types have no eventTypeFilter and are those built with any other address
\* list, or none.
C16_OwnVariantOnly ==
  built # <<>> =>
    /\ args.eventType \in {"wallet_activity", "smart_contract_event_activity"} =>
         /\ "eventFilters" \notin DOMAIN built[1]
         /\ "eventTypeFilter" \in DOMAIN built[1]
         /\ BuildOptions(Without(args, "eventFilters"), networkId).options = built
         /\ \A f \in TransferFilterInputs :
              BuildOptions(Merge(args, Obj1("eventFilters", f)), networkId).options = built
    /\ args.eventType \in TransferTypes =>
         /\ "eventTypeFilter" \notin DOMAIN built[1]
         /\ "eventFilters" \in DOMAIN built[1]
         /\ \A etf \in RawTypeFilterObjs :
              BuildOptions(Merge(args, Obj1("eventTypeFilter", etf)), networkId).options = built

\* C16 witness: a contract-event request built from arguments that carry a
\* populated transfer filter, of which the options show nothing.
C16_Witness ==
  /\ built # <<>>
  /\ args.eventType = "smart_contract_event_activity"
  /\ "eventFilters" \in DOMAIN args
  /\ PopulatedKeys(args) = {"from_address", "to_address"}
  /\ DOMAIN built[1] = {"networkId", "notificationUri", "eventType", "eventTypeFilter"}

\* C17: auto mode ends only by the exit taken on an error: the interval
\* leads back to the head of the loop and the head of the loop to a send,
\* and after every drained turn the next send does come.
C17_AutoNeverReturns ==
  /\ []((mode = "auto" /\ pc = "exited") => (exitCode = 1 /\ errors > 0))
  /\ [][pc = "auto_sleep" => pc' \in {"auto_sleep", "auto_loop"}]_vars
  /\ [][pc = "auto_loop" => (pc' = "auto_await_stream" /\ sends' = sends + 1)]_vars
  /\ \A n \in 1..(MaxTurns - 1) : (pc = "auto_sleep" /\ sends = n) ~> (sends = n + 1)

\* C17 witness: after two turns and two intervals auto mode is at the head of
\* its loop again, running.
C17_Witness ==
  /\ mode = "auto"
  /\ pc = "auto_loop"
  /\ sends = 2
  /\ sleeps = 2
  /\ exitCode = -1

\* C18: the driver that runs is that of the mode chosen, the other one never
\* does anything, the mode once chosen stays, and nothing is sent, read or
\* timed before a mode is chosen.
C18_OneDriver ==
  /\ [](pc \in {"chat_prompt", "chat_await_stream", "chat_iterating"} => mode = "chat")
  /\ [](pc \in {"auto_loop", "auto_await_stream", "auto_iterating", "auto_sleep"} =>
          mode = "auto")
  /\ [](mode = "" => (sends = 0 /\ reads = 0 /\ sleeps = 0))
  /\ [](mode = "chat" => (sleeps = 0 /\ (sends > 0 => (reads > 0 /\ lastSend.message # Thought))))
  /\ [](mode = "auto" => (reads = 0 /\ (sends > 0 => lastSend.message = Thought)))
  /\ [][mode # "" => mode' = mode]_vars

\* C18 witness: auto mode was chosen and its first turn is streaming.
C18_Witness ==
  /\ mode = "auto"
  /\ pc = "auto_iterating"
  /\ sends = 1
  /\ reads = 0

\* C19: every call of agent.stream carries the thread id set when the agent
\* was initialized, and that id never changes afterwards.
C19_OneThread ==
  /\ [](sends > 0 => lastSend.threadId = "CDP Agentkit Chatbot Example!")
  /\ [][sends' # sends =>
          (lastSend'.threadId = threadId /\ threadId = "CDP Agentkit Chatbot Example!")]_vars
  /\ [][threadId # "" => threadId' = threadId]_vars

\* C19 witness: the second send of a chat session carried the thread id.
C19_Witness ==
  /\ mode = "chat"
  /\ sends = 2
  /\ lastSend.threadId = "CDP Agentkit Chatbot Example!"
  /\ lastSend.message = <<"h", "i">>

====
